---- MODULE Spec2Model ----
(***************************************************************************)
(* Model of keras/backend/mlx/image.py: the index fixers, the             *)
(* interpolation kernels, the gather / weighted-sum resampler             *)
(* (_extract_coordinates) and the three public operations map_coordinates, *)
(* affine_transform and resize.                                            *)
(*                                                                         *)
(* Tensors are records [shape, data]: shape is a sequence of extents and   *)
(* data maps every 0-based index tuple to an element.  Real elements are   *)
(* exact rationals [n, d] in lowest terms (float32 round-off is not        *)
(* modelled); integer index tensors hold plain integers.                   *)
(***************************************************************************)
EXTENDS Integers, Sequences, FiniteSets, TLC

VARIABLES pc, op, args, out, err, entered

vars == <<pc, op, args, out, err, entered>>

(***************************************************************************)
(* Bounds of the explored inputs.                                          *)
(***************************************************************************)
MaxSize == 4
MaxIndex == 13
MaxLen == 3
MaxDim == 2
MaxTarget == 4

(***************************************************************************)
(* Exact rational arithmetic.                                              *)
(***************************************************************************)
Abs(x) == IF x < 0 THEN -x ELSE x

RECURSIVE GCD(_, _)
GCD(a, b) == IF b = 0 THEN a ELSE GCD(b, a % b)

Rat(n, d) ==
    LET g == GCD(Abs(n), Abs(d))
        s == IF d < 0 THEN -1 ELSE 1
    IN  [n |-> (s * n) \div g, d |-> (s * d) \div g]

R(i) == [n |-> i, d |-> 1]
RAdd(a, b) == Rat(a.n * b.d + b.n * a.d, a.d * b.d)
RSub(a, b) == Rat(a.n * b.d - b.n * a.d, a.d * b.d)
RMul(a, b) == Rat(a.n * b.n, a.d * b.d)
RDiv(a, b) == Rat(a.n * b.d, a.d * b.n)
RLeq(a, b) == a.n * b.d <= b.n * a.d
RIsInt(a) == a.d = 1

\* mx.floor: the largest integer <= a (\div rounds towards minus infinity)
RFloor(a) == a.n \div a.d

\* a rounding that sends ties upwards instead of to the even integer
RRound_half_up(a) == (2 * a.n + a.d) \div (2 * a.d)

\* mx.round: round to nearest, ties to the even integer (rint)
RRound(a) ==
    LET f == RFloor(a)
        twice == 2 * (a.n - f * a.d)
    IN  IF twice < a.d THEN f
        ELSE IF twice > a.d THEN f + 1
        ELSE IF f % 2 = 0 THEN f ELSE f + 1

\* Python int(): truncation towards zero
RTrunc(a) == IF a.n >= 0 THEN a.n \div a.d ELSE -((-a.n) \div a.d)

(***************************************************************************)
(* What the build does where the code leaves the language's defined        *)
(* behaviour.  rem0: an integer remainder with divisor 0 traps (x86 idiv), *)
(* or yields the numerator (AArch64 sdiv/msub), or yields 0.  cast: a      *)
(* float to integer conversion of a value the type cannot hold wraps or    *)
(* saturates.  oob: the value a gather reads outside the source.           *)
(***************************************************************************)
Rem0Outcomes == {"trap", "numerator", "zero"}
CastOutcomes == {"wrap", "saturate"}
OobOutcomes == {R(0), R(77)}
DefinedBuild == [rem0 |-> "zero", cast |-> "wrap", oob |-> R(0)]

\* the builds that can be told apart: the remainder where a divisor is 0,
\* the read outside the source where the remainder yields the numerator,
\* the cast where the result can leave the integer type
BuildsFor(div0, overflow) ==
    {b \in [rem0 : Rem0Outcomes, cast : CastOutcomes, oob : OobOutcomes] :
        /\ div0 \/ b.rem0 = "zero"
        /\ overflow \/ b.cast = "wrap"
        /\ b.rem0 = "numerator" \/ b.oob = R(0)}

\* mx.remainder on integers: the sign of the result follows the divisor
Remainder(a, b, bld) ==
    IF b = 0 THEN (IF bld.rem0 = "numerator" THEN a ELSE 0) ELSE a % b

(***************************************************************************)
(* BoundaryPolicy: _INDEX_FIXERS                                           *)
(***************************************************************************)
FillModes == {"constant", "nearest", "wrap", "mirror", "reflect"}

Clip(x, lo, hi) == IF x < lo THEN lo ELSE IF x > hi THEN hi ELSE x

\* a mirror fixer whose period is one too long (the edge sample duplicated)
mirror_index_fixer_long_period(index, size, bld) ==
    LET s == size
    IN  Abs(Remainder(index + s, 2 * s, bld) - s)

mirror_index_fixer(index, size, bld) ==
    LET s == size - 1
    IN  Abs(Remainder(index + s, 2 * s, bld) - s)

reflect_index_fixer(index, size, bld) ==
    (mirror_index_fixer(2 * index + 1, 2 * size + 1, bld) - 1) \div 2

INDEX_FIXERS(mode, index, size, bld) ==
    CASE mode = "constant" -> Clip(index, 0, size - 1)
      [] mode = "nearest" -> Clip(index, 0, size - 1)
      [] mode = "wrap" -> Remainder(index, size, bld)
      [] mode = "mirror" -> mirror_index_fixer(index, size, bld)
      [] mode = "reflect" -> reflect_index_fixer(index, size, bld)

\* the divisor of the remainder the fixer of this mode evaluates, 1 if none
FixerDivisor(mode, size) ==
    CASE mode = "wrap" -> size
      [] mode = "mirror" -> 2 * (size - 1)
      [] mode = "reflect" -> 2 * (2 * size)
      [] OTHER -> 1

(***************************************************************************)
(* The tensor runtime the module relies on (mlx.core): shapes,             *)
(* broadcasting, elementwise maps, reshape, transpose and gather.          *)
(***************************************************************************)
RECURSIVE Indices(_)
Indices(shape) ==
    IF shape = <<>> THEN {<<>>}
    ELSE {<<i>> \o r : i \in 0..(Head(shape) - 1), r \in Indices(Tail(shape))}

\* a 0-d tensor, also standing for a Python scalar
Scalar(v) == [shape |-> <<>>, data |-> [ix \in Indices(<<>>) |-> v]]

Max(a, b) == IF a >= b THEN a ELSE b

\* extent k (1-based, of n) of shape s aligned to the right, 1 where s has none
Extent(s, k, n) == IF k <= n - Len(s) THEN 1 ELSE s[k - (n - Len(s))]

\* the broadcast of two shapes to rank n: aligned to the right, the extent
\* that is not 1
BroadcastTo(s1, s2, n) ==
    [k \in 1..n |-> IF Extent(s1, k, n) = 1 THEN Extent(s2, k, n) ELSE Extent(s1, k, n)]

BroadcastShape(s1, s2) == BroadcastTo(s1, s2, Max(Len(s1), Len(s2)))

\* the element of t that the index ix of a broadcast result reads
BAt(t, ix) ==
    t.data[[k \in 1..Len(t.shape) |->
               IF t.shape[k] = 1 THEN 0 ELSE ix[k + (Len(ix) - Len(t.shape))]]]

\* the elementwise operators a + b, a * b, a / b and a & b, with broadcasting
Add(a, b) ==
    [shape |-> BroadcastShape(a.shape, b.shape),
     data |-> [ix \in Indices(BroadcastShape(a.shape, b.shape)) |->
                  RAdd(BAt(a, ix), BAt(b, ix))]]

Multiply(a, b) ==
    [shape |-> BroadcastShape(a.shape, b.shape),
     data |-> [ix \in Indices(BroadcastShape(a.shape, b.shape)) |->
                  RMul(BAt(a, ix), BAt(b, ix))]]

Divide(a, b) ==
    [shape |-> BroadcastShape(a.shape, b.shape),
     data |-> [ix \in Indices(BroadcastShape(a.shape, b.shape)) |->
                  RDiv(BAt(a, ix), BAt(b, ix))]]

And(a, b) ==
    [shape |-> BroadcastShape(a.shape, b.shape),
     data |-> [ix \in Indices(BroadcastShape(a.shape, b.shape)) |->
                  BAt(a, ix) /\ BAt(b, ix)]]

\* mx.where(c, a, b)
Where(c, a, b) ==
    [shape |-> BroadcastShape(c.shape, BroadcastShape(a.shape, b.shape)),
     data |-> [ix \in Indices(BroadcastShape(c.shape, BroadcastShape(a.shape, b.shape))) |->
                  IF BAt(c, ix) THEN BAt(a, ix) ELSE BAt(b, ix)]]

\* x.reshape(*x.shape, 1, ..., 1) with k trailing extents of 1
AppendOnes(x, k) ==
    [shape |-> x.shape \o [j \in 1..k |-> 1],
     data |-> [ix \in Indices(x.shape \o [j \in 1..k |-> 1]) |->
                  x.data[SubSeq(ix, 1, Len(x.shape))]]]

\* x.transpose(perm), perm a sequence of 1-based source axes
Transpose(x, perm) ==
    [shape |-> [j \in 1..Len(perm) |-> x.shape[perm[j]]],
     data |-> [ix \in Indices([j \in 1..Len(perm) |-> x.shape[perm[j]]]) |->
                  x.data[[a \in 1..Len(perm) |->
                             ix[CHOOSE j \in 1..Len(perm) : perm[j] = a]]]]]

RECURSIVE BroadcastAll(_)
BroadcastAll(shapes) ==
    IF shapes = <<>> THEN <<>>
    ELSE BroadcastShape(Head(shapes), BroadcastAll(Tail(shapes)))

\* the gather below, given the broadcast shape bs of the index tensors
GatherOn(src, idx, bs, bld) ==
    [shape |-> bs \o SubSeq(src.shape, Len(idx) + 1, Len(src.shape)),
     data |-> [ix \in Indices(bs \o SubSeq(src.shape, Len(idx) + 1, Len(src.shape))) |->
                  IF \A a \in 1..Len(idx) :
                         /\ 0 <= BAt(idx[a], SubSeq(ix, 1, Len(bs)))
                         /\ BAt(idx[a], SubSeq(ix, 1, Len(bs))) < src.shape[a]
                  THEN src.data[[a \in 1..Len(idx) |->
                                    BAt(idx[a], SubSeq(ix, 1, Len(bs)))]
                                \o SubSeq(ix, Len(bs) + 1, Len(ix))]
                  ELSE bld.oob]]

\* src[i1, ..., iK]: K integer index tensors on the leading axes, the rest
\* of the axes taken whole; a read outside src yields what the build reads
Gather(src, idx, bld) ==
    GatherOn(src, idx, BroadcastAll([a \in 1..Len(idx) |-> idx[a].shape]), bld)

(***************************************************************************)
(* Element types.  A source is a tensor with a dtype; _is_integer lists    *)
(* the eight integer dtypes, of which the model's sources use uint8.       *)
(***************************************************************************)
IntegerDtypes ==
    {"int32", "uint32", "int64", "uint64", "int16", "uint16", "int8", "uint8"}

is_integer(dtype) == dtype \in IntegerDtypes

Uint8Modulus == 256

\* result.astype(src.dtype) on one element; fromInt: the result already has
\* an integer dtype, so the conversion is integer to integer and wraps
AsType(v, dtype, fromInt, bld) ==
    IF ~is_integer(dtype) THEN v
    ELSE IF 0 <= RTrunc(v) /\ RTrunc(v) < Uint8Modulus THEN R(RTrunc(v))
    ELSE IF fromInt \/ bld.cast = "wrap" THEN R(RTrunc(v) % Uint8Modulus)
    ELSE R(Clip(RTrunc(v), 0, Uint8Modulus - 1))

(***************************************************************************)
(* InterpolationKernel: a coordinate tensor to its (index, weight)         *)
(* candidates.  unit marks the weight that is the Python int 1.            *)
(***************************************************************************)
\* mx.round(coordinate).astype(mx.int32)
Round(coordinate) ==
    [shape |-> coordinate.shape,
     data |-> [ix \in DOMAIN coordinate.data |-> RRound(coordinate.data[ix])]]

nearest_indices_and_weights(coordinate) ==
    << [index |-> Round(coordinate), weight |-> Scalar(R(1)), unit |-> TRUE] >>

\* lower = mx.floor(coordinate), as the int32 index
Lower(coordinate) ==
    [shape |-> coordinate.shape,
     data |-> [ix \in DOMAIN coordinate.data |-> RFloor(coordinate.data[ix])]]

\* upper_weight = coordinate - lower
UpperWeight(coordinate) ==
    [shape |-> coordinate.shape,
     data |-> [ix \in DOMAIN coordinate.data |->
                  RSub(coordinate.data[ix], R(RFloor(coordinate.data[ix])))]]

\* lower_weight = 1 - upper_weight
LowerWeight(coordinate) ==
    [shape |-> coordinate.shape,
     data |-> [ix \in DOMAIN coordinate.data |->
                  RSub(R(1), RSub(coordinate.data[ix], R(RFloor(coordinate.data[ix]))))]]

\* index + 1
Upper(coordinate) ==
    [shape |-> coordinate.shape,
     data |-> [ix \in DOMAIN coordinate.data |-> RFloor(coordinate.data[ix]) + 1]]

linear_indices_and_weights(coordinate) ==
    << [index |-> Lower(coordinate), weight |-> LowerWeight(coordinate), unit |-> FALSE],
       [index |-> Upper(coordinate), weight |-> UpperWeight(coordinate), unit |-> FALSE] >>

InterpolationFunction(name, coordinate) ==
    IF name = "nearest" THEN nearest_indices_and_weights(coordinate)
    ELSE linear_indices_and_weights(coordinate)

(***************************************************************************)
(* Resampler: _extract_coordinates (every caller passes start_axis = 0).   *)
(***************************************************************************)
Min(a, b) == IF a <= b THEN a ELSE b

\* _expand: trailing extents of 1 up to the rank of src, for arrays only
Expand(src, x) == AppendOnes(x, Max(0, Len(src.shape) - Len(x.shape)))

\* index_fixer(index, size) on every element
FixIndices(mode, index, size, bld) ==
    [shape |-> index.shape,
     data |-> [ix \in DOMAIN index.data |->
                  INDEX_FIXERS(mode, index.data[ix], size, bld)]]

\* (0 <= index) & (index < size)
IsValid(index, size) ==
    [shape |-> index.shape,
     data |-> [ix \in DOMAIN index.data |->
                  0 <= index.data[ix] /\ index.data[ix] < size]]

\* the candidates of one axis: fixed index, validity of the raw index, weight
AxisCandidates(src, cands, size, mode, bld) ==
    [j \in 1..Len(cands) |->
        [index |-> FixIndices(mode, cands[j].index, size, bld),
         valid |-> Expand(src, IsValid(cands[j].index, size)),
         weight |-> IF cands[j].unit THEN cands[j].weight
                    ELSE Expand(src, cands[j].weight),
         unit |-> cands[j].unit]]

\* the list indices: the candidates of every axis that has a coordinate
AllCandidates(src, coordinates, interp, mode, bld) ==
    [a \in 1..Min(Len(coordinates), Len(src.shape)) |->
        AxisCandidates(src, InterpolationFunction(interp, coordinates[a]),
                       src.shape[a], mode, bld)]

\* itertools.product over lists of the given lengths, as tuples of positions
Prepend(n, rest) ==
    [p \in 1..(n * Len(rest)) |->
        <<((p - 1) \div Len(rest)) + 1>> \o rest[((p - 1) % Len(rest)) + 1]]

RECURSIVE Product(_)
Product(ns) ==
    IF ns = <<>> THEN << <<>> >>
    ELSE Prepend(Head(ns), Product(Tail(ns)))

\* functools.reduce over a non-empty seq with operator.and_, operator.mul
\* and operator.add
RECURSIVE ReduceAnd(_)
ReduceAnd(seq) ==
    IF Len(seq) = 1 THEN seq[1]
    ELSE And(ReduceAnd(SubSeq(seq, 1, Len(seq) - 1)), seq[Len(seq)])

RECURSIVE ReduceMul(_)
ReduceMul(seq) ==
    IF Len(seq) = 1 THEN seq[1]
    ELSE Multiply(ReduceMul(SubSeq(seq, 1, Len(seq) - 1)), seq[Len(seq)])

RECURSIVE ReduceAdd(_)
ReduceAdd(seq) ==
    IF Len(seq) = 1 THEN seq[1]
    ELSE Add(ReduceAdd(SubSeq(seq, 1, Len(seq) - 1)), seq[Len(seq)])

\* the gathered samples with the fill value where a raw index is invalid
Masked(gathered, items, fill_value, check_validity) ==
    IF check_validity
    THEN Where(ReduceAnd([a \in 1..Len(items) |-> items[a].valid]), gathered,
               Scalar(fill_value.v))
    ELSE gathered

\* contribution * weight unless the weight is the Python int 1
Weighted(contribution, items) ==
    IF \A a \in 1..Len(items) : items[a].unit THEN contribution
    ELSE Multiply(contribution, ReduceMul([a \in 1..Len(items) |-> items[a].weight]))

\* one pass of the loop over itertools.product(*indices)
Contribution(src, items, fill_value, check_validity, bld) ==
    Weighted(Masked(Gather(src, [a \in 1..Len(items) |-> items[a].index], bld),
                    items, fill_value, check_validity),
             items)

\* outputs: one contribution per element of the product
Outputs(src, indices, combos, fill_value, check_validity, bld) ==
    [p \in 1..Len(combos) |->
        Contribution(src, [a \in 1..Len(indices) |-> indices[a][combos[p][a]]],
                     fill_value, check_validity, bld)]

\* the weighted sum, given the candidates of every axis
SumOver(src, indices, fill_value, check_validity, bld) ==
    ReduceAdd(Outputs(src, indices,
                      Product([a \in 1..Len(indices) |-> Len(indices[a])]),
                      fill_value, check_validity, bld))

\* the weighted sum before the final rounding and cast
ExtractSum(src, coordinates, interp, mode, fill_value, check_validity, bld) ==
    SumOver(src, AllCandidates(src, coordinates, interp, mode, bld),
            fill_value, check_validity, bld)

\* whether the weighted sum still has an integer dtype: an integer source,
\* weights that are the Python int 1, and no float fill value mixed in
ResultIsInteger(src, interp, fill_value, check_validity) ==
    /\ is_integer(src.dtype)
    /\ interp = "nearest"
    /\ (check_validity => fill_value.isint)

\* mx.round(result) where an integer source gave a float sum, then the cast
RoundAndCast(result, dtype, isint, bld) ==
    [shape |-> result.shape,
     data |-> [ix \in DOMAIN result.data |->
                  AsType(IF is_integer(dtype) /\ ~isint
                         THEN R(RRound(result.data[ix])) ELSE result.data[ix],
                         dtype, isint, bld)],
     dtype |-> dtype]

extract_coordinates(src, coordinates, interp, mode, fill_value, check_validity, bld) ==
    RoundAndCast(ExtractSum(src, coordinates, interp, mode, fill_value,
                            check_validity, bld),
                 src.dtype, ResultIsInteger(src, interp, fill_value, check_validity),
                 bld)

(***************************************************************************)
(* Outcome of a call: the error raised ("none" if it returned), whether    *)
(* _extract_coordinates was entered, and the tensor returned.              *)
(***************************************************************************)
NoTensor == [shape |-> <<>>, data |-> 0]

Raise(kind) == [err |-> kind, entered |-> FALSE, out |-> NoTensor]

\* the resampler's outcome: a trap where a fixer divides by 0 on a build
\* that traps, else the tensor it returns
Resample(src, coordinates, interp, mode, fill_value, check_validity, bld) ==
    LET K == Min(Len(coordinates), Len(src.shape))
    IN  IF bld.rem0 = "trap" /\ \E a \in 1..K : FixerDivisor(mode, src.shape[a]) = 0
        THEN [err |-> "trap", entered |-> TRUE, out |-> NoTensor]
        ELSE [err |-> "none", entered |-> TRUE,
              out |-> extract_coordinates(src, coordinates, interp, mode,
                                          fill_value, check_validity, bld)]

\* fill_value = int(fill_value)
IntFill(fill_value) == [v |-> R(RTrunc(fill_value.v)), isint |-> TRUE]

map_coordinates(input, coordinates, order, fill_mode, fill_value, bld) ==
    LET fill == IF is_integer(input.dtype) THEN IntFill(fill_value) ELSE fill_value
    IN  IF Len(coordinates) # Len(input.shape) THEN Raise("ValueError")
        ELSE IF fill_mode \notin FillModes THEN Raise("ValueError")
        ELSE IF order \notin {0, 1} THEN Raise("NotImplementedError")
        ELSE Resample(input, coordinates,
                      IF order = 0 THEN "nearest" ELSE "linear",
                      fill_mode, fill, fill_mode = "constant", bld)

Init ==
    /\ pc = "idle"
    /\ op = "none"
    /\ args = [none |-> TRUE]
    /\ out = NoTensor
    /\ err = "none"
    /\ entered = FALSE

(***************************************************************************)
(* Every call is a pure function of its arguments and nothing outlives it, *)
(* so a behaviour is one call: it is issued with its arguments, then it    *)
(* runs to its end.                                                        *)
(***************************************************************************)
Call(name, a) ==
    /\ pc' = "called"
    /\ op' = name
    /\ args' = a
    /\ UNCHANGED <<out, err, entered>>

Return(r) ==
    /\ pc' = "done"
    /\ err' = r.err
    /\ entered' = r.entered
    /\ out' = r.out
    /\ UNCHANGED <<op, args>>

(***************************************************************************)
(* One application of an index fixer to one integer index.                 *)
(***************************************************************************)
CallFix ==
    /\ pc = "idle"
    /\ \E mode \in FillModes, size \in 1..MaxSize, index \in (-MaxIndex)..MaxIndex :
        Call("fix", [mode |-> mode, size |-> size, index |-> index])

FixIndex ==
    /\ pc = "called"
    /\ op = "fix"
    /\ \E bld \in BuildsFor(FixerDivisor(args.mode, args.size) = 0, FALSE) :
          Return(IF FixerDivisor(args.mode, args.size) = 0 /\ bld.rem0 = "trap"
                 THEN [err |-> "trap", entered |-> FALSE, out |-> NoTensor]
                 ELSE [err |-> "none", entered |-> FALSE,
                       out |-> [shape |-> <<>>,
                                data |-> INDEX_FIXERS(args.mode, args.index,
                                                      args.size, bld)]])

NextFix == CallFix \/ FixIndex
SpecFix == Init /\ [][NextFix]_vars

(***************************************************************************)
(* Inputs of the calls explored.  A source holds distinct values, 10 times *)
(* the row-major position of the element counted from 1.  Coordinates are  *)
(* multiples of 1/2 from -1 to one past the longest axis; coordinate       *)
(* tensors have extents 1 and 2 only, so any two of them broadcast.        *)
(***************************************************************************)
RECURSIVE RowMajor(_, _)
RowMajor(shape, ix) ==
    IF shape = <<>> THEN 0
    ELSE LET n == Len(shape)
         IN  RowMajor(SubSeq(shape, 1, n - 1), SubSeq(ix, 1, n - 1)) * shape[n] + ix[n]

Iota(shape, dtype) ==
    [shape |-> shape,
     data |-> [ix \in Indices(shape) |-> R(10 * (1 + RowMajor(shape, ix)))],
     dtype |-> dtype]

SourceDtypes == {"uint8", "float32"}

Vec(vs) ==
    [shape |-> <<Len(vs)>>,
     data |-> [ix \in Indices(<<Len(vs)>>) |-> vs[ix[1] + 1]]]

Col(vs) ==
    [shape |-> <<Len(vs), 1>>,
     data |-> [ix \in Indices(<<Len(vs), 1>>) |-> vs[ix[1] + 1]]]

HalfSteps == {Rat(n, 2) : n \in (-2)..(2 * MaxLen)}

LineCoords ==
    {Vec(<<v>>) : v \in HalfSteps}
        \cup {Scalar(Rat(1, 2)), Vec(<<R(-1), Rat(3, 2)>>)}

RowCoords ==
    {Vec(<<R(0), R(1)>>), Vec(<<Rat(1, 2), R(2)>>), Col(<<R(-1), Rat(1, 2)>>),
     Scalar(Rat(1, 2))}

ColumnCoords == {Vec(<<R(1), Rat(-1, 2)>>), Vec(<<Rat(3, 2)>>), Scalar(R(0))}

CoordinateLists ==
    {<<c>> : c \in LineCoords} \cup {<<c, d>> : c \in RowCoords, d \in ColumnCoords}

MapSources ==
    {Iota(<<n>>, dt) : n \in 1..MaxLen, dt \in SourceDtypes}
        \cup {Iota(<<h, w>>, "uint8") : h \in 1..MaxDim, w \in 1..MaxDim}

DefaultFill == [v |-> R(0), isint |-> TRUE]

FillValues ==
    {DefaultFill, [v |-> Rat(17, 10), isint |-> FALSE],
     [v |-> R(300), isint |-> TRUE]}

\* the builds that can be told apart on a resampling of src in this mode
ResampleBuilds(src, mode, fill_value) ==
    BuildsFor(\E a \in 1..Len(src.shape) : FixerDivisor(mode, src.shape[a]) = 0,
              /\ is_integer(src.dtype)
              /\ ~(0 <= RTrunc(fill_value.v) /\ RTrunc(fill_value.v) < Uint8Modulus))

CallMapCoordinates ==
    /\ pc = "idle"
    /\ \E input \in MapSources, coordinates \in CoordinateLists, order \in {0, 1, 2},
          fill_mode \in FillModes \cup {"bogus"} :
        \E fill_value \in FillValues :
          Call("map_coordinates",
               [input |-> input, coordinates |-> coordinates, order |-> order,
                fill_mode |-> fill_mode, fill_value |-> fill_value])

MapCoordinates ==
    /\ pc = "called"
    /\ op = "map_coordinates"
    /\ \E bld \in ResampleBuilds(args.input, args.fill_mode, args.fill_value) :
        \E r \in {map_coordinates(args.input, args.coordinates, args.order,
                                  args.fill_mode, args.fill_value, bld)} :
            Return(r)

NextMap == CallMapCoordinates \/ MapCoordinates
SpecMap == Init /\ [][NextMap]_vars

(***************************************************************************)
(* AffineCoordinateGenerator and resampling: _affine_transform.  A         *)
(* transform is a tensor of shape (8) or (rows, 8).                        *)
(***************************************************************************)
\* coefficient k (0-based) of every row, as a tensor of shape (rows, 1, 1)
Coefficient(transform, k) ==
    [shape |-> <<(IF Len(transform.shape) = 1 THEN 1 ELSE transform.shape[1]), 1, 1>>,
     data |-> [ix \in Indices(<<(IF Len(transform.shape) = 1 THEN 1
                                 ELSE transform.shape[1]), 1, 1>>) |->
                  IF Len(transform.shape) = 1 THEN transform.data[<<k>>]
                  ELSE transform.data[<<ix[1], k>>]]]

\* x.squeeze(0)
Squeeze0(x) ==
    [shape |-> Tail(x.shape),
     data |-> [ix \in Indices(Tail(x.shape)) |-> x.data[<<0>> \o ix]]]

\* mx.arange(n).reshape(shape), shape holding n on axis and 1 elsewhere
Arange(shape, axis) ==
    [shape |-> shape, data |-> [ix \in Indices(shape) |-> R(ix[axis])]]

y_target(target_size) == Arange(<<1, target_size[1], 1>>, 2)

x_target(target_size) == Arange(<<1, 1, target_size[2]>>, 3)

\* p * x_target + q * y_target + r
Lin(p, q, r, target_size) ==
    Add(Add(Multiply(p, x_target(target_size)), Multiply(q, y_target(target_size))), r)

\* k = c0 * x_target + c1 * y_target + 1
Denominator(transform, target_size) ==
    Lin(Coefficient(transform, 6), Coefficient(transform, 7), Scalar(R(1)), target_size)

\* x_src = (a0 * x_target + a1 * y_target + a2) / k
x_src(transform, target_size) ==
    Divide(Lin(Coefficient(transform, 0), Coefficient(transform, 1),
               Coefficient(transform, 2), target_size),
           Denominator(transform, target_size))

\* y_src = (b0 * x_target + b1 * y_target + b2) / k
y_src(transform, target_size) ==
    Divide(Lin(Coefficient(transform, 3), Coefficient(transform, 4),
               Coefficient(transform, 5), target_size),
           Denominator(transform, target_size))

\* the list indices: for a single image (y, x), for a batch (entry, y, x)
CoordinateList(src, ys, xs) ==
    IF Len(src.shape) = 3
    THEN <<Squeeze0(ys), Squeeze0(xs)>>
    ELSE <<Arange(<<src.shape[1], 1, 1>>, 1), ys, xs>>

affine_coordinates(src, transform, target_size) ==
    CoordinateList(src, y_src(transform, target_size), x_src(transform, target_size))

affine_transform_core(src, transform, target_size, interp, mode, fill_value, check_validity, bld) ==
    Resample(src, affine_coordinates(src, transform, target_size), interp, mode,
             fill_value, check_validity, bld)

AFFINE_TRANSFORM_INTERPOLATIONS == {"nearest", "bilinear"}
AFFINE_TRANSFORM_FILL_MODES == {"constant", "nearest", "wrap", "mirror", "reflect"}

Kernel(interpolation) == IF interpolation = "nearest" THEN "nearest" ELSE "linear"

WithDtype(t, dtype) == [shape |-> t.shape, data |-> t.data, dtype |-> dtype]

\* image.transpose(0, 2, 3, 1) or image.transpose(1, 2, 0)
ToChannelsLast(image) ==
    WithDtype(Transpose(image, IF Len(image.shape) = 4 THEN <<1, 3, 4, 2>>
                               ELSE <<2, 3, 1>>),
              image.dtype)

\* the image as the resampler sees it
ChannelsLast(image, data_format) ==
    IF data_format = "channels_first" THEN ToChannelsLast(image) ELSE image

\* result.transpose(0, 3, 1, 2) or result.transpose(2, 0, 1)
ToChannelsFirst(result) ==
    WithDtype(Transpose(result, IF Len(result.shape) = 4 THEN <<1, 4, 2, 3>>
                                ELSE <<3, 1, 2>>),
              result.dtype)

\* the outcome r with its tensor, if it has one, in the caller's layout
InLayout(r, data_format) ==
    IF r.err = "none" /\ data_format = "channels_first"
    THEN [r EXCEPT !.out = ToChannelsFirst(r.out)]
    ELSE r

\* image.shape[:2] if image.ndim == 3 else image.shape[1:3]
TargetSize(image) ==
    IF Len(image.shape) = 3 THEN SubSeq(image.shape, 1, 2)
    ELSE SubSeq(image.shape, 2, 3)

\* the call of _affine_transform on the channels_last image
AffineChannelsLast(image, transform, interpolation, fill_mode, fill_value, bld) ==
    affine_transform_core(image, transform, TargetSize(image), Kernel(interpolation),
                          fill_mode, fill_value, fill_mode = "constant", bld)

affine_transform(image, transform, interpolation, fill_mode, fill_value, data_format, bld) ==
    IF interpolation \notin AFFINE_TRANSFORM_INTERPOLATIONS THEN Raise("ValueError")
    ELSE IF fill_mode \notin AFFINE_TRANSFORM_FILL_MODES THEN Raise("ValueError")
    ELSE IF Len(image.shape) \notin {3, 4} THEN Raise("ValueError")
    ELSE IF Len(transform.shape) \notin {1, 2} THEN Raise("ValueError")
    ELSE InLayout(AffineChannelsLast(ChannelsLast(image, data_format), transform,
                                     interpolation, fill_mode, fill_value, bld),
                  data_format)

\* mx.array([H / size[0], 0, 0, 0, W / size[1], 0, 0, 0])
resize_transform(H, W, size) ==
    Vec(<<Rat(H, size[1]), R(0), R(0), R(0), Rat(W, size[2]), R(0), R(0), R(0)>>)

\* *_, H, W, C = image.shape and the call of _affine_transform
ResizeChannelsLast(image, size, interpolation, bld) ==
    affine_transform_core(image,
                          resize_transform(image.shape[Len(image.shape) - 2],
                                           image.shape[Len(image.shape) - 1], size),
                          size, Kernel(interpolation), "constant",
                          [v |-> R(0), isint |-> TRUE], FALSE, bld)

\* a resize that checks the interpolation name before antialias
resize_late_antialias(image, size, interpolation, antialias, data_format, bld) ==
    IF interpolation \notin AFFINE_TRANSFORM_INTERPOLATIONS THEN Raise("ValueError")
    ELSE IF antialias THEN Raise("NotImplementedError")
    ELSE IF Len(image.shape) \notin {3, 4} THEN Raise("ValueError")
    ELSE InLayout(ResizeChannelsLast(ChannelsLast(image, data_format), size,
                                     interpolation, bld),
                  data_format)

resize(image, size, interpolation, antialias, data_format, bld) ==
    IF antialias THEN Raise("NotImplementedError")
    ELSE IF interpolation \notin AFFINE_TRANSFORM_INTERPOLATIONS THEN Raise("ValueError")
    ELSE IF Len(image.shape) \notin {3, 4} THEN Raise("ValueError")
    ELSE InLayout(ResizeChannelsLast(ChannelsLast(image, data_format), size,
                                     interpolation, bld),
                  data_format)

(***************************************************************************)
(* Calls of affine_transform and resize.  Images are single (rank 3) with  *)
(* one or two channels or batched (rank 4) with one or two entries, in the *)
(* layout data_format names; ranks 2 and 5 are the invalid ones.           *)
(***************************************************************************)
Layout(shape, data_format) ==
    IF data_format = "channels_last" THEN shape
    ELSE IF Len(shape) = 3 THEN <<shape[3], shape[1], shape[2]>>
    ELSE <<shape[1], shape[4], shape[2], shape[3]>>

ImageShapes ==
    {<<h, w, c>> : h \in 1..MaxDim, w \in 1..MaxDim, c \in {1, 2}}
        \cup {<<b, h, w, 1>> : b \in {1, 2}, h \in 1..MaxDim, w \in 1..MaxDim}

ImageDtypes(shape) ==
    IF Len(shape) = 4 THEN {"uint8"}
    ELSE IF shape[3] = 1 THEN SourceDtypes ELSE {"float32"}

BadImages == {Iota(<<2, 2>>, "uint8"), Iota(<<1, 1, 2, 2, 1>>, "float32")}

Images(data_format) ==
    UNION {{Iota(Layout(sh, data_format), dt) : dt \in ImageDtypes(sh)} :
              sh \in ImageShapes}
        \cup BadImages

IdentityRow == <<R(1), R(0), R(0), R(0), R(1), R(0), R(0), R(0)>>

\* a translation that sends every output pixel outside the image
ShiftRow == <<R(1), R(0), R(MaxDim + 1), R(0), R(1), R(MaxDim + 1), R(0), R(0)>>

Rows(rows, row) ==
    [shape |-> <<rows, 8>>,
     data |-> [ix \in Indices(<<rows, 8>>) |-> row[ix[2] + 1]]]

\* rank-1 transforms, a rank-2 transform of one row per image, and
\* transforms of rank 0 and 3
Transforms(image) ==
    {Vec(IdentityRow), Vec(ShiftRow),
     Rows(IF Len(image.shape) = 4 THEN image.shape[1] ELSE 1, IdentityRow),
     Scalar(R(1)),
     [shape |-> <<1, 1, 8>>,
      data |-> [ix \in Indices(<<1, 1, 8>>) |-> IdentityRow[ix[3] + 1]]]}

DataFormats == {"channels_last", "channels_first"}

AffineFillValues == {DefaultFill, [v |-> Rat(17, 10), isint |-> FALSE]}

CallAffineTransform ==
    /\ pc = "idle"
    /\ \E data_format \in DataFormats,
          interpolation \in AFFINE_TRANSFORM_INTERPOLATIONS \cup {"bicubic"},
          fill_mode \in AFFINE_TRANSFORM_FILL_MODES \cup {"bogus"} :
        \E image \in Images(data_format),
           fill_value \in AffineFillValues :
          \E transform \in Transforms(image) :
            Call("affine_transform",
                 [image |-> image, transform |-> transform,
                  interpolation |-> interpolation, fill_mode |-> fill_mode,
                  fill_value |-> fill_value, data_format |-> data_format])

AffineTransform ==
    /\ pc = "called"
    /\ op = "affine_transform"
    /\ \E bld \in ResampleBuilds(args.image, args.fill_mode, args.fill_value) :
        \E r \in {affine_transform(args.image, args.transform, args.interpolation,
                                   args.fill_mode, args.fill_value,
                                   args.data_format, bld)} :
            Return(r)

NextAffine == CallAffineTransform \/ AffineTransform
SpecAffine == Init /\ [][NextAffine]_vars

TargetSizes == {<<h, w>> : h \in 1..MaxTarget, w \in {1, 3, 4}}

CallResize ==
    /\ pc = "idle"
    /\ \E data_format \in DataFormats, size \in TargetSizes, antialias \in BOOLEAN,
          interpolation \in AFFINE_TRANSFORM_INTERPOLATIONS \cup {"bicubic"} :
        \E image \in Images(data_format) :
            Call("resize",
                 [image |-> image, size |-> size, interpolation |-> interpolation,
                  antialias |-> antialias, data_format |-> data_format])

Resize ==
    /\ pc = "called"
    /\ op = "resize"
    /\ \E r \in {resize(args.image, args.size, args.interpolation, args.antialias,
                        args.data_format, DefinedBuild)} :
        Return(r)

NextResize == CallResize \/ Resize
SpecResize == Init /\ [][NextResize]_vars

Next == NextFix \/ NextMap \/ NextAffine \/ NextResize
Spec == Init /\ [][Next]_vars

(***************************************************************************)
(* C2: for nearest, wrap, mirror and reflect, every size >= 1 and every    *)
(* integer index, the fixer is defined and returns f with 0 <= f < size.   *)
(***************************************************************************)
C2_FixedIndexInRange ==
    (pc = "done" /\ op = "fix" /\ args.mode # "constant") =>
        /\ err = "none"
        /\ 0 <= out.data
        /\ out.data < args.size

(***************************************************************************)
(* C3: for size > 1, reflect duplicates the edge sample and mirror does    *)
(* not; mirror has period 2*(size-1), reflect has period 2*size, and both  *)
(* are the identity on 0 .. size-1.                                        *)
(***************************************************************************)
C3_MirrorReflect ==
    (pc = "done" /\ op = "fix" /\ args.size > 1 /\ args.mode \in {"mirror", "reflect"}) =>
        LET size == args.size
            i == args.index
            fix(j) == INDEX_FIXERS(args.mode, j, size, DefinedBuild)
            period == IF args.mode = "mirror" THEN 2 * (size - 1) ELSE 2 * size
        IN  /\ err = "none"
            /\ out.data = fix(i + period)
            /\ out.data = fix(i - period)
            /\ (0 <= i /\ i < size) => out.data = i
            /\ (i = -1 /\ args.mode = "reflect") => out.data = fix(0)
            /\ (i = -1 /\ args.mode = "mirror") =>
                   (out.data = fix(1) /\ out.data # fix(0))

C3_Witness ==
    /\ pc = "done"
    /\ op = "fix"
    /\ args.mode = "reflect"
    /\ args.size = 3
    /\ args.index = -1
    /\ out.data = 0

(***************************************************************************)
(* C1: the tensor map_coordinates returns has the common broadcast shape   *)
(* of the coordinate tensors, also where they have fewer dimensions than   *)
(* the source.                                                             *)
(***************************************************************************)
C1_OutputShapeIsBroadcastShape ==
    (pc = "done" /\ op = "map_coordinates" /\ err = "none") =>
        out.shape = BroadcastAll([a \in 1..Len(args.coordinates) |->
                                     args.coordinates[a].shape])

(***************************************************************************)
(* C4: with order 1 on a 1-D source, every coordinate that is an integer   *)
(* in 0 .. size-1 yields exactly the source element there, under every     *)
(* fill mode and fill value.                                               *)
(***************************************************************************)
C4_IntegerCoordinateReproducesSample ==
    (/\ pc = "done"
     /\ op = "map_coordinates"
     /\ args.order = 1
     /\ args.fill_mode \in FillModes
     /\ Len(args.input.shape) = 1
     /\ Len(args.coordinates) = 1) =>
        \A ix \in Indices(args.coordinates[1].shape) :
            LET c == args.coordinates[1].data[ix]
            IN  (RIsInt(c) /\ 0 <= c.n /\ c.n < args.input.shape[1]) =>
                    /\ err = "none"
                    /\ out.data[ix] = args.input.data[<<c.n>>]

Contributing ==
    {args.input.data[ix] : ix \in Indices(args.input.shape)}
        \cup (IF args.fill_mode = "constant"
              THEN {IntFill(args.fill_value).v} ELSE {})

(***************************************************************************)
(* C7: for an integer source and order 1, every element returned is the    *)
(* weighted sum of the contributing samples rounded to the nearest         *)
(* integer, lies between the least and the greatest value that can         *)
(* contribute (the source values, and the fill value in constant mode),    *)
(* and is a value of the source's integer type, so the cast changes        *)
(* nothing.                                                                *)
(***************************************************************************)
C7_IntegerResultIsRoundedAndInRange ==
    (/\ pc = "done"
     /\ op = "map_coordinates"
     /\ err = "none"
     /\ args.order = 1
     /\ is_integer(args.input.dtype)) =>
        LET sum == ExtractSum(args.input, args.coordinates, "linear", args.fill_mode,
                              IntFill(args.fill_value),
                              args.fill_mode = "constant", DefinedBuild)
        IN  \A ix \in Indices(out.shape) :
                LET v == out.data[ix]
                IN  /\ RIsInt(v)
                    /\ v = R(RRound(sum.data[ix]))
                    /\ 0 <= RRound(sum.data[ix])
                    /\ RRound(sum.data[ix]) < Uint8Modulus
                    /\ \E lo \in Contributing : RLeq(lo, v)
                    /\ \E hi \in Contributing : RLeq(v, hi)

IsIdentity(transform) ==
    /\ Len(transform.shape) \in {1, 2}
    /\ \A ix \in Indices(transform.shape) :
           transform.data[ix] = IdentityRow[ix[Len(ix)] + 1]

(***************************************************************************)
(* C5: affine_transform with the identity transform returns the source     *)
(* image element for element, for nearest and bilinear interpolation and   *)
(* for single and batched images.                                          *)
(***************************************************************************)
C5_IdentityTransformReturnsImage ==
    (/\ pc = "done"
     /\ op = "affine_transform"
     /\ args.interpolation \in AFFINE_TRANSFORM_INTERPOLATIONS
     /\ args.fill_mode \in AFFINE_TRANSFORM_FILL_MODES
     /\ Len(args.image.shape) \in {3, 4}
     /\ IsIdentity(args.transform)) =>
        /\ err = "none"
        /\ out = args.image

(***************************************************************************)
(* C6: resize of a 2x2 single-channel image to (4, 4) with nearest         *)
(* interpolation returns the 4x4 image whose pixel (y, x) is the source    *)
(* pixel (y div 2, x div 2).                                               *)
(***************************************************************************)
C6_NearestUpscaleFillsBlocks ==
    (/\ pc = "done"
     /\ op = "resize"
     /\ ~args.antialias
     /\ args.interpolation = "nearest"
     /\ args.size = <<4, 4>>
     /\ Len(args.image.shape) \in {3, 4}
     /\ LET sh == ChannelsLast(args.image, args.data_format).shape
        IN  SubSeq(sh, Len(sh) - 2, Len(sh)) = <<2, 2, 1>>) =>
        /\ err = "none"
        /\ LET src == ChannelsLast(args.image, args.data_format)
               res == ChannelsLast(out, args.data_format)
               n == Len(src.shape)
           IN  /\ res.shape = SubSeq(src.shape, 1, n - 3) \o <<4, 4, 1>>
               /\ \A ix \in Indices(res.shape) :
                      res.data[ix] =
                          src.data[[ix EXCEPT ![n - 2] = ix[n - 2] \div 2,
                                              ![n - 1] = ix[n - 1] \div 2]]

C6_Witness ==
    /\ pc = "done"
    /\ op = "resize"
    /\ err = "none"
    /\ args.interpolation = "nearest"
    /\ args.data_format = "channels_last"
    /\ args.image.shape = <<2, 2, 1>>
    /\ args.size = <<4, 4>>
    /\ out.shape = <<4, 4, 1>>
    /\ out.data[<<1, 3, 0>>] = args.image.data[<<0, 1, 0>>]

(***************************************************************************)
(* C8: for an integer source, constant fill mode and a non-integer fill    *)
(* value, a sample whose every candidate is out of range gets the fill     *)
(* value coerced by int(), from map_coordinates and from affine_transform  *)
(* alike.                                                                  *)
(***************************************************************************)
C8_FillValueCoercedToInteger ==
    /\ (/\ pc = "done"
        /\ op = "map_coordinates"
        /\ err = "none"
        /\ is_integer(args.input.dtype)
        /\ ~RIsInt(args.fill_value.v)
        /\ args.fill_mode = "constant"
        /\ Len(args.input.shape) = 1
        /\ Len(args.coordinates[1].shape) = 1) =>
           \A ix \in Indices(args.coordinates[1].shape) :
               LET c == args.coordinates[1].data[ix]
                   first == IF args.order = 0 THEN RRound(c) ELSE RFloor(c)
               IN  (first < -1 \/ first >= args.input.shape[1]) =>
                       out.data[ix] = R(RTrunc(args.fill_value.v))
    /\ (/\ pc = "done"
        /\ op = "affine_transform"
        /\ err = "none"
        /\ is_integer(args.image.dtype)
        /\ ~RIsInt(args.fill_value.v)
        /\ args.fill_mode = "constant"
        /\ args.transform = Vec(ShiftRow)) =>
           \A ix \in Indices(out.shape) :
               out.data[ix] = R(RTrunc(args.fill_value.v))

ViolatesValidation ==
    CASE op = "map_coordinates" ->
            \/ Len(args.coordinates) # Len(args.input.shape)
            \/ args.fill_mode \notin FillModes
            \/ args.order \notin {0, 1}
      [] op = "affine_transform" ->
            \/ args.interpolation \notin {"nearest", "bilinear"}
            \/ args.fill_mode \notin FillModes
            \/ Len(args.image.shape) \notin {3, 4}
            \/ Len(args.transform.shape) \notin {1, 2}
      [] op = "resize" ->
            \/ args.antialias
            \/ args.interpolation \notin {"nearest", "bilinear"}
            \/ Len(args.image.shape) \notin {3, 4}
      [] OTHER -> FALSE

(***************************************************************************)
(* C9: a call that violates a validated condition ends in an error without *)
(* _extract_coordinates being entered, and resize with antialias fails     *)
(* with NotImplementedError whatever its other arguments.                  *)
(***************************************************************************)
C9_ValidationBeforeComputation ==
    (pc = "done") =>
        /\ ViolatesValidation =>
               (err \in {"ValueError", "NotImplementedError"} /\ ~entered)
        /\ (op = "resize" /\ args.antialias) => err = "NotImplementedError"

C9_Witness ==
    /\ pc = "done"
    /\ op = "resize"
    /\ args.antialias
    /\ args.interpolation = "bicubic"
    /\ Len(args.image.shape) = 2
    /\ err = "NotImplementedError"
    /\ ~entered

InRange(coordinate, size) ==
    \A ix \in Indices(coordinate.shape) :
        /\ RLeq(R(0), coordinate.data[ix])
        /\ ~RLeq(R(size), coordinate.data[ix])

(***************************************************************************)
(* C10: every source coordinate resize produces for an output pixel lies   *)
(* in the image: 0 <= y_src < H_in and 0 <= x_src < W_in, also for targets *)
(* that change the aspect ratio and for non-square sources.                *)
(***************************************************************************)
C10_ResizeCoordinatesInRange ==
    (pc = "done" /\ op = "resize" /\ err = "none") =>
        LET src == ChannelsLast(args.image, args.data_format)
            n == Len(src.shape)
            H == src.shape[n - 2]
            W == src.shape[n - 1]
            c == affine_coordinates(src, resize_transform(H, W, args.size), args.size)
        IN  /\ InRange(c[Len(c) - 1], H)
            /\ InRange(c[Len(c)], W)

====
